---------------------------- MODULE Spec2Model ----------------------------
(***************************************************************************)
(* A model of src/ci/parser.c: the recursive-descent parser that turns a   *)
(* line-oriented assembly-like source text into a linked list of commands. *)
(*                                                                         *)
(* A character is a one-character string, a text is a sequence of          *)
(* characters.  A token's `lexeme` is a pointer into the source text, here *)
(* the 1-based offset of its first character; the text ends with an        *)
(* implicit NUL.  A uint64_t is four 16-bit limbs, least significant       *)
(* first, so that the arithmetic of parse_imm keeps its 64-bit width.      *)
(***************************************************************************)
EXTENDS Integers, Sequences, FiniteSets, TLC

VARIABLES
    parser,     \* the Parser object: lexer, current, next, had_error
    heap,       \* the Command objects allocated so far, by address
    stdout,     \* the diagnostics printed so far
    head,       \* parse_commands: head of the list (0 is NULL)
    tail,       \* parse_commands: tail of the list (0 is NULL)
    pc,         \* where the running function stands
    accepted,   \* history: the commands parse_cmd returned, in order
    call        \* the last direct call of an operand function and its result

vars == <<parser, heap, stdout, head, tail, pc, accepted, call>>

NULL == 0

\* F applied to the value of v, which is evaluated once
Bind(v, F(_)) == CHOOSE r \in {F(x) : x \in {v}} : TRUE

----------------------------------------------------------------------------
(* Characters *)

NUL == "NUL"

DecDigits == <<"0", "1", "2", "3", "4", "5", "6", "7", "8", "9">>
HexLower  == <<"a", "b", "c", "d", "e", "f">>
HexUpper  == <<"A", "B", "C", "D", "E", "F">>

Range(s) == {s[i] : i \in 1..Len(s)}

IndexOf(s, c) == CHOOSE i \in 1..Len(s) : s[i] = c

\* c - '0' for c in '0'..'9'
DecVal(c) == IndexOf(DecDigits, c) - 1

\* c - 'a' + 10 for c in 'a'..'f'
HexLowerVal(c) == IndexOf(HexLower, c) + 9

\* c - 'A' + 10 for c in 'A'..'F'
HexUpperVal(c) == IndexOf(HexUpper, c) + 9

\* text[i], the terminating NUL past the end
CharAt(text, i) == IF i >= 1 /\ i <= Len(text) THEN text[i] ELSE NUL

----------------------------------------------------------------------------
(* uint64_t as four 16-bit limbs *)

LimbBase == 65536

U64Zero == <<0, 0, 0, 0>>

\* the uint64_t of a number below 2^31
U64(n) == <<n % LimbBase, n \div LimbBase, 0, 0>>

\* the same step with the value kept in 32 bits
U64MulAdd_32Bit(v, m, d) ==
    LET t1 == v[1] * m + d
        t2 == v[2] * m + (t1 \div LimbBase)
    IN  <<t1 % LimbBase, t2 % LimbBase, 0, 0>>

\* (v * m + d) mod 2^64, for a small multiplier m and digit d
U64MulAdd(v, m, d) ==
    LET t1 == v[1] * m + d
        t2 == v[2] * m + (t1 \div LimbBase)
        t3 == v[3] * m + (t2 \div LimbBase)
        t4 == v[4] * m + (t3 \div LimbBase)
    IN  <<t1 % LimbBase, t2 % LimbBase, t3 % LimbBase, t4 % LimbBase>>

----------------------------------------------------------------------------
(* The lexer.  Its code is not part of parser.c; it is modelled from the    *)
(* specification: a lazy token stream over the source text with keywords,   *)
(* identifiers, numeric literals, one newline token per line break and an   *)
(* end-of-input sentinel, each token a borrowed slice of the source with    *)
(* its 1-based line and column.                                             *)

KeywordTypes == {"TOK_ADD", "TOK_SUB", "TOK_MOV", "TOK_CMP", "TOK_CMP_U", "TOK_PRINT"}

Keywords ==
    [TOK_ADD   |-> <<"a", "d", "d">>,
     TOK_SUB   |-> <<"s", "u", "b">>,
     TOK_MOV   |-> <<"m", "o", "v">>,
     TOK_CMP   |-> <<"c", "m", "p">>,
     TOK_CMP_U |-> <<"c", "m", "p", "_", "u">>,
     TOK_PRINT |-> <<"p", "r", "i", "n", "t">>]

\* the kind of a word: a keyword, a numeric literal (it begins with a decimal
\* digit) or an identifier
TokenTypeOf(word) ==
    IF \E k \in KeywordTypes : Keywords[k] = word
    THEN CHOOSE k \in KeywordTypes : Keywords[k] = word
    ELSE IF word[1] \in Range(DecDigits) THEN "TOK_NUM" ELSE "TOK_IDENT"

RECURSIVE SkipBlanks(_, _)
SkipBlanks(text, i) ==
    IF CharAt(text, i) = " " THEN SkipBlanks(text, i + 1) ELSE i

\* the offset just past the word that starts at i
RECURSIVE WordEnd(_, _)
WordEnd(text, i) ==
    IF CharAt(text, i) \in {" ", "\n", NUL} THEN i ELSE WordEnd(text, i + 1)

Lexer(text) == [source |-> text, pos |-> 1, line |-> 1, column |-> 1, pulled |-> 0]

\* lexer_next_token: the token and the lexer after it.  `pulled` counts the calls.
lexer_next_token(lx) ==
    Bind(SkipBlanks(lx.source, lx.pos), LAMBDA p :
    Bind(lx.column + (p - lx.pos), LAMBDA col :
    Bind(CharAt(lx.source, p), LAMBDA c :
    Bind(WordEnd(lx.source, p), LAMBDA e :
        IF c = NUL
        THEN [token |-> [type |-> "TOK_EOF", lexeme |-> p, length |-> 0,
                         line |-> lx.line, column |-> col],
              lexer |-> [lx EXCEPT !.pos = p, !.column = col, !.pulled = @ + 1]]
        ELSE IF c = "\n"
        THEN [token |-> [type |-> "TOK_NL", lexeme |-> p, length |-> 1,
                         line |-> lx.line, column |-> col],
              lexer |-> [lx EXCEPT !.pos = p + 1, !.line = @ + 1, !.column = 1,
                                   !.pulled = @ + 1]]
        ELSE [token |-> [type |-> TokenTypeOf(SubSeq(lx.source, p, e - 1)),
                         lexeme |-> p, length |-> e - p,
                         line |-> lx.line, column |-> col],
              lexer |-> [lx EXCEPT !.pos = e, !.column = col + (e - p),
                                   !.pulled = @ + 1]]))))

----------------------------------------------------------------------------
(* The parser's token buffer *)

\* parser_init: both buffer slots primed with two tokens of the lexer
parser_init(lexer) ==
    Bind(lexer_next_token(lexer), LAMBDA t1 :
    Bind(lexer_next_token(t1.lexer), LAMBDA t2 :
        [lexer     |-> t2.lexer,
         had_error |-> FALSE,
         label_map |-> NULL,
         current   |-> t1.token,
         next      |-> t2.token]))

is_at_end(p) == p.current.type = "TOK_EOF"

\* an advance that pulls the new token before it shifts the buffer
advance_PullFirst(p) ==
    IF ~is_at_end(p)
    THEN Bind(lexer_next_token(p.lexer), LAMBDA t :
             [p EXCEPT !.next = t.token, !.current = t.token, !.lexer = t.lexer])
    ELSE p

\* advance: the parser after the call (the returned token is the old current)
advance(p) ==
    IF ~is_at_end(p)
    THEN Bind(lexer_next_token(p.lexer), LAMBDA t :
             [p EXCEPT !.current = p.next, !.next = t.token, !.lexer = t.lexer])
    ELSE p

consume(p, type) ==
    IF p.current.type = type
    THEN [ok |-> TRUE, parser |-> advance(p)]
    ELSE [ok |-> FALSE, parser |-> p]

RECURSIVE skip_nls(_)
skip_nls(p) ==
    Bind(consume(p, "TOK_NL"), LAMBDA c :
        IF c.ok THEN skip_nls(c.parser) ELSE p)

consume_newline(p) ==
    Bind(consume(p, "TOK_NL"), LAMBDA nl :
        IF nl.ok THEN nl ELSE consume(p, "TOK_EOF"))

\* token.lexeme[i]: a read of the source text the token points into
LexemeChar(p, token, i) == CharAt(p.lexer.source, token.lexeme + i)

----------------------------------------------------------------------------
(* Operands *)

\* A string is its characters followed by NUL; the null string pointer is the
\* empty sequence.
NullStr == <<>>

\* an Operand of a calloc'ed Command; the fields are named as the code names them
ZeroOperand == [num_val |-> U64Zero, base |-> 0, str_val |-> NullStr]

is_variable(p, token) == token.length >= 2 /\ LexemeChar(p, token, 0) = "x"

is_base(p, token) ==
    token.length = 1 /\ (LexemeChar(p, token, 0) = "d" \/ LexemeChar(p, token, 0) = "x" \/
                         LexemeChar(p, token, 0) = "s" \/ LexemeChar(p, token, 0) = "b")

\* strtol's leading white space
RECURSIVE SkipSpace(_, _)
SkipSpace(text, i) ==
    IF CharAt(text, i) \in {" ", "\n"} THEN SkipSpace(text, i + 1) ELSE i

RECURSIVE ScanDecimal(_, _, _)
ScanDecimal(text, i, acc) ==
    IF CharAt(text, i) \in Range(DecDigits)
    THEN ScanDecimal(text, i + 1, acc * 10 + DecVal(CharAt(text, i)))
    ELSE [value |-> acc, end |-> i]

\* strtol(text + nptr, &endptr, 10): white space, an optional sign, decimal
\* digits; with no digit endptr is nptr.  (The clamp to LONG_MAX needs 19
\* digits, more than a token of the bounded inputs holds.)
strtol(text, nptr) ==
    Bind(SkipSpace(text, nptr), LAMBDA s :
    Bind(IF CharAt(text, s) \in {"+", "-"} THEN s + 1 ELSE s, LAMBDA d :
    Bind(ScanDecimal(text, d, 0), LAMBDA r :
        IF r.end = d
        THEN [value |-> 0, endptr |-> nptr]
        ELSE [value |-> IF CharAt(text, s) = "-" THEN 0 - r.value ELSE r.value,
              endptr |-> r.end])))

\* a parse_variable whose range check admits 32
parse_variable_UpTo32(p, token) ==
    Bind(strtol(p.lexer.source, token.lexeme + 1), LAMBDA r :
        IF (token.lexeme + token.length) # r.endptr \/ r.value < 0 \/ r.value > 32
        THEN [ok |-> FALSE, var_num |-> 0]
        ELSE [ok |-> TRUE, var_num |-> r.value])

parse_variable(p, token) ==
    Bind(strtol(p.lexer.source, token.lexeme + 1), LAMBDA r :
        IF (token.lexeme + token.length) # r.endptr \/ r.value < 0 \/ r.value > 31
        THEN [ok |-> FALSE, var_num |-> 0]
        ELSE [ok |-> TRUE, var_num |-> r.value])

\* the hexadecimal loop of parse_imm, from index i
RECURSIVE ImmHex(_, _, _, _)
ImmHex(p, token, i, value) ==
    IF i < token.length
    THEN Bind(LexemeChar(p, token, i), LAMBDA c :
             IF c \in Range(DecDigits)
             THEN Bind(U64MulAdd(value, 16, DecVal(c)), LAMBDA v :
                      ImmHex(p, token, i + 1, v))
             ELSE IF c \in Range(HexLower)
             THEN Bind(U64MulAdd(value, 16, HexLowerVal(c)), LAMBDA v :
                      ImmHex(p, token, i + 1, v))
             ELSE IF c \in Range(HexUpper)
             THEN Bind(U64MulAdd(value, 16, HexUpperVal(c)), LAMBDA v :
                      ImmHex(p, token, i + 1, v))
             ELSE [ok |-> FALSE, value |-> value])
    ELSE [ok |-> TRUE, value |-> value]

\* one iteration of the binary loop of parse_imm, at index i; st.ok is false
\* once the loop has returned false
ImmBinStep(p, token, i, st) ==
    IF ~st.ok THEN st
    ELSE IF LexemeChar(p, token, i) = "0" \/ LexemeChar(p, token, i) = "1"
    THEN [ok |-> TRUE, value |-> U64MulAdd(st.value, 2, DecVal(LexemeChar(p, token, i)))]
    ELSE [ok |-> FALSE, value |-> st.value]

\* the iterations lo .. hi - 1 of the binary loop in order, evaluated by
\* halves: a binary literal that reaches 2^64 has 65 digits
RECURSIVE ImmBinRange(_, _, _, _, _)
ImmBinRange(p, token, lo, hi, st) ==
    IF lo >= hi THEN st
    ELSE IF hi = lo + 1 THEN ImmBinStep(p, token, lo, st)
    ELSE Bind((lo + hi) \div 2, LAMBDA mid :
         Bind(ImmBinRange(p, token, lo, mid, st), LAMBDA m :
             ImmBinRange(p, token, mid, hi, m)))

\* the binary loop of parse_imm, from index i
ImmBin(p, token, i, value) ==
    ImmBinRange(p, token, i, token.length, [ok |-> TRUE, value |-> value])

\* the decimal loop of parse_imm, from index i
RECURSIVE ImmDec(_, _, _, _)
ImmDec(p, token, i, value) ==
    IF i < token.length
    THEN Bind(LexemeChar(p, token, i), LAMBDA c :
             IF c \in Range(DecDigits)
             THEN Bind(U64MulAdd(value, 10, DecVal(c)), LAMBDA v :
                      ImmDec(p, token, i + 1, v))
             ELSE [ok |-> FALSE, value |-> value])
    ELSE [ok |-> TRUE, value |-> value]

\* a value loop that keeps the digits read before the first invalid character
ImmValue_Partial(p, token) ==
    Bind(IF token.length >= 2 /\ LexemeChar(p, token, 0) = "0"
         THEN IF LexemeChar(p, token, 1) = "x" \/ LexemeChar(p, token, 1) = "X"
              THEN ImmHex(p, token, 2, U64Zero)
              ELSE IF LexemeChar(p, token, 1) = "b" \/ LexemeChar(p, token, 1) = "B"
              THEN ImmBin(p, token, 2, U64Zero)
              ELSE [ok |-> FALSE, value |-> U64Zero]
         ELSE ImmDec(p, token, 0, U64Zero), LAMBDA r :
        [ok |-> TRUE, value |-> r.value])

\* the value loop of parse_imm chosen by the token's prefix
ImmValue(p, token) ==
    IF token.length >= 2 /\ LexemeChar(p, token, 0) = "0"
    THEN IF LexemeChar(p, token, 1) = "x" \/ LexemeChar(p, token, 1) = "X"
         THEN ImmHex(p, token, 2, U64Zero)
         ELSE IF LexemeChar(p, token, 1) = "b" \/ LexemeChar(p, token, 1) = "B"
         THEN ImmBin(p, token, 2, U64Zero)
         ELSE [ok |-> FALSE, value |-> U64Zero]
    ELSE ImmDec(p, token, 0, U64Zero)

parse_imm(p, op) ==
    IF p.current.type # "TOK_NUM"
    THEN [ok |-> FALSE, parser |-> p, op |-> op]
    ELSE Bind(ImmValue(p, p.current), LAMBDA r :
             IF ~r.ok
             THEN [ok |-> FALSE, parser |-> p, op |-> op]
             ELSE [ok |-> TRUE, parser |-> advance(p),
                   op |-> [op EXCEPT !.num_val = r.value]])

parse_variable_operand(p, op) ==
    IF p.current.type # "TOK_IDENT" \/ ~is_variable(p, p.current)
    THEN [ok |-> FALSE, parser |-> p, op |-> op]
    ELSE Bind(parse_variable(p, p.current), LAMBDA v :
             IF ~v.ok
             THEN [ok |-> FALSE, parser |-> p, op |-> op]
             ELSE [ok |-> TRUE, parser |-> advance(p),
                   op |-> [op EXCEPT !.base = v.var_num]])

parse_var_or_imm(p, op, is_immediate) ==
    IF p.current.type = "TOK_IDENT"
    THEN Bind(parse_variable_operand(p, op), LAMBDA v :
             IF ~v.ok
             THEN [ok |-> FALSE, parser |-> v.parser, op |-> v.op,
                   is_immediate |-> is_immediate]
             ELSE [ok |-> TRUE, parser |-> v.parser, op |-> v.op,
                   is_immediate |-> FALSE])
    ELSE IF p.current.type = "TOK_NUM"
    THEN Bind(parse_imm(p, op), LAMBDA v :
             IF ~v.ok
             THEN [ok |-> FALSE, parser |-> v.parser, op |-> v.op,
                   is_immediate |-> is_immediate]
             ELSE [ok |-> TRUE, parser |-> v.parser, op |-> v.op,
                   is_immediate |-> TRUE])
    ELSE [ok |-> FALSE, parser |-> advance(p), op |-> op,
          is_immediate |-> is_immediate]

----------------------------------------------------------------------------
(* Commands *)

\* create_command: calloc (taken to succeed) and the defaults; the new
\* Command's address is its index in the heap
create_command(h, type) ==
    [cmd  |-> Len(h) + 1,
     heap |-> Append(h, [obj |-> [type             |-> type,
                                   next             |-> NULL,
                                   destination      |-> ZeroOperand,
                                   val_a            |-> ZeroOperand,
                                   val_b            |-> ZeroOperand,
                                   is_a_immediate   |-> FALSE,
                                   is_a_string      |-> FALSE,
                                   is_b_immediate   |-> FALSE,
                                   is_b_string      |-> FALSE,
                                   branch_condition |-> "BRANCH_NONE"],
                          freed |-> 0])]

\* free_command (command.c, not part of parser.c): releases the Command;
\* `freed` counts its releases
free_command(h, cmd) == [h EXCEPT ![cmd].freed = @ + 1]

\* strdup(text + i): the characters from i to the terminating NUL
strdup(text, i) == SubSeq(text, i, Len(text)) \o <<NUL>>

\* what "%.*s" prints of a token: at most `length` characters of its lexeme
TokenText(p, token) ==
    SubSeq(p.lexer.source, token.lexeme,
           IF token.lexeme + token.length - 1 <= Len(p.lexer.source)
           THEN token.lexeme + token.length - 1 ELSE Len(p.lexer.source))

\* a print_error that reports and leaves the error flag as it is
print_error_NoFlag(p, out) ==
    [parser |-> p,
     stdout |-> Append(out,
                  [text   |-> IF p.current.type = "TOK_EOF"
                              THEN <<"E", "O", "F">>
                              ELSE TokenText(p, p.current),
                   type   |-> p.current.type,
                   length |-> p.current.length,
                   line   |-> p.current.line,
                   column |-> p.current.column])]

\* print_error: one report on the current token, and the error flag set
print_error(p, out) ==
    [parser |-> [p EXCEPT !.had_error = TRUE],
     stdout |-> Append(out,
                  [text   |-> IF p.current.type = "TOK_EOF"
                              THEN <<"E", "O", "F">>
                              ELSE TokenText(p, p.current),
                   type   |-> p.current.type,
                   length |-> p.current.length,
                   line   |-> p.current.line,
                   column |-> p.current.column])]

\* a failure path that reports and returns without releasing the command
Discard_NoFree(p, h, out, cmd) ==
    Bind(print_error(p, out), LAMBDA e :
        [ret |-> NULL, parser |-> e.parser, heap |-> h, stdout |-> e.stdout])

\* print_error(...); free_command(cmd); return NULL;
Discard(p, h, out, cmd) ==
    Bind(print_error(p, out), LAMBDA e :
        [ret |-> NULL, parser |-> e.parser, heap |-> free_command(h, cmd),
         stdout |-> e.stdout])

\* a terminator check that accepts the command whatever follows the operands
Terminate_Lenient(p, h, out, cmd) ==
    [ret |-> cmd, parser |-> advance(p), heap |-> h, stdout |-> out]

\* if (current.type != TOK_NL && current.type != TOK_EOF) ... else advance; return cmd;
Terminate(p, h, out, cmd) ==
    IF p.current.type # "TOK_NL" /\ p.current.type # "TOK_EOF"
    THEN Discard(p, h, out, cmd)
    ELSE [ret |-> cmd, parser |-> advance(p), heap |-> h, stdout |-> out]

\* case TOK_ADD: destination, first operand, second operand, terminator.
\* w is the world [parser, heap, stdout] at the keyword.
case_TOK_ADD(w, type) ==
    Bind(advance(w.parser), LAMBDA p1 :
    Bind(create_command(w.heap, type), LAMBDA c :
    Bind(parse_variable_operand(p1, c.heap[c.cmd].obj.destination), LAMBDA d :
    Bind([c.heap EXCEPT ![c.cmd].obj.destination = d.op], LAMBDA h1 :
        IF ~d.ok THEN Discard(d.parser, h1, w.stdout, c.cmd)
        ELSE
    Bind(parse_var_or_imm(d.parser, h1[c.cmd].obj.val_a, FALSE), LAMBDA a :
    Bind([h1 EXCEPT ![c.cmd].obj.val_a = a.op], LAMBDA h2 :
        IF ~a.ok THEN Discard(a.parser, h2, w.stdout, c.cmd)
        ELSE
    Bind(parse_var_or_imm(a.parser, h2[c.cmd].obj.val_b, FALSE), LAMBDA b :
    Bind([h2 EXCEPT ![c.cmd].obj.val_b = b.op], LAMBDA h3 :
        IF ~b.ok THEN Discard(b.parser, h3, w.stdout, c.cmd)
        ELSE
    Bind([h3 EXCEPT ![c.cmd].obj.is_a_immediate = a.is_immediate,
                    ![c.cmd].obj.is_b_immediate = b.is_immediate], LAMBDA h4 :
        Terminate(b.parser, h4, w.stdout, c.cmd))))))))))

\* case TOK_SUB: the same production as ADD
case_TOK_SUB(w, type) == case_TOK_ADD(w, type)

\* a MOV production that sets the flag of the second operand as ADD does
case_TOK_MOV_FlagB(w, type) ==
    Bind(advance(w.parser), LAMBDA p1 :
    Bind(create_command(w.heap, type), LAMBDA c :
    Bind(parse_variable_operand(p1, c.heap[c.cmd].obj.destination), LAMBDA d :
    Bind([c.heap EXCEPT ![c.cmd].obj.destination = d.op], LAMBDA h1 :
        IF ~d.ok THEN Discard(d.parser, h1, w.stdout, c.cmd)
        ELSE
    Bind(parse_var_or_imm(d.parser, h1[c.cmd].obj.val_a, FALSE), LAMBDA a :
    Bind([h1 EXCEPT ![c.cmd].obj.val_a = a.op], LAMBDA h2 :
        IF ~a.ok THEN Discard(a.parser, h2, w.stdout, c.cmd)
        ELSE
    Bind([h2 EXCEPT ![c.cmd].obj.is_a_immediate = a.is_immediate,
                    ![c.cmd].obj.is_b_immediate = a.is_immediate], LAMBDA h3 :
        Terminate(a.parser, h3, w.stdout, c.cmd))))))))

\* case TOK_MOV: destination, source operand, terminator
case_TOK_MOV(w, type) ==
    Bind(advance(w.parser), LAMBDA p1 :
    Bind(create_command(w.heap, type), LAMBDA c :
    Bind(parse_variable_operand(p1, c.heap[c.cmd].obj.destination), LAMBDA d :
    Bind([c.heap EXCEPT ![c.cmd].obj.destination = d.op], LAMBDA h1 :
        IF ~d.ok THEN Discard(d.parser, h1, w.stdout, c.cmd)
        ELSE
    Bind(parse_var_or_imm(d.parser, h1[c.cmd].obj.val_a, FALSE), LAMBDA a :
    Bind([h1 EXCEPT ![c.cmd].obj.val_a = a.op], LAMBDA h2 :
        IF ~a.ok THEN Discard(a.parser, h2, w.stdout, c.cmd)
        ELSE
    Bind([h2 EXCEPT ![c.cmd].obj.is_a_immediate = a.is_immediate], LAMBDA h3 :
        Terminate(a.parser, h3, w.stdout, c.cmd))))))))

\* case TOK_CMP: first operand, second operand, terminator
case_TOK_CMP(w, type) ==
    Bind(advance(w.parser), LAMBDA p1 :
    Bind(create_command(w.heap, type), LAMBDA c :
    Bind(parse_var_or_imm(p1, c.heap[c.cmd].obj.val_a, FALSE), LAMBDA a :
    Bind([c.heap EXCEPT ![c.cmd].obj.val_a = a.op], LAMBDA h1 :
        IF ~a.ok THEN Discard(a.parser, h1, w.stdout, c.cmd)
        ELSE
    Bind(parse_var_or_imm(a.parser, h1[c.cmd].obj.val_b, FALSE), LAMBDA b :
    Bind([h1 EXCEPT ![c.cmd].obj.val_b = b.op], LAMBDA h2 :
        IF ~b.ok THEN Discard(b.parser, h2, w.stdout, c.cmd)
        ELSE
    Bind([h2 EXCEPT ![c.cmd].obj.is_a_immediate = a.is_immediate,
                    ![c.cmd].obj.is_b_immediate = b.is_immediate], LAMBDA h3 :
        Terminate(b.parser, h3, w.stdout, c.cmd))))))))

\* case TOK_CMP_U: the same production as CMP
case_TOK_CMP_U(w, type) == case_TOK_CMP(w, type)

\* a PRINT production that flags its first operand as a string
case_TOK_PRINT_StringFlag(w, type) ==
    Bind(advance(w.parser), LAMBDA p1 :
    Bind(create_command(w.heap, type), LAMBDA c :
        IF ~is_base(p1, p1.current) THEN Discard(p1, c.heap, w.stdout, c.cmd)
        ELSE
    Bind([c.heap EXCEPT ![c.cmd].obj.val_a.str_val =
                            strdup(p1.lexer.source, p1.current.lexeme),
                        ![c.cmd].obj.is_a_string = TRUE], LAMBDA h1 :
    Bind(advance(p1), LAMBDA p2 :
    Bind(parse_var_or_imm(p2, h1[c.cmd].obj.val_b, FALSE), LAMBDA b :
    Bind([h1 EXCEPT ![c.cmd].obj.val_b = b.op], LAMBDA h2 :
        IF ~b.ok THEN Discard(b.parser, h2, w.stdout, c.cmd)
        ELSE
    Bind([h2 EXCEPT ![c.cmd].obj.is_b_immediate = b.is_immediate], LAMBDA h3 :
        Terminate(b.parser, h3, w.stdout, c.cmd))))))))

\* case TOK_PRINT: base signifier (strdup of the lexeme), operand, terminator
case_TOK_PRINT(w, type) ==
    Bind(advance(w.parser), LAMBDA p1 :
    Bind(create_command(w.heap, type), LAMBDA c :
        IF ~is_base(p1, p1.current) THEN Discard(p1, c.heap, w.stdout, c.cmd)
        ELSE
    Bind([c.heap EXCEPT ![c.cmd].obj.val_a.str_val =
                            strdup(p1.lexer.source, p1.current.lexeme)], LAMBDA h1 :
    Bind(advance(p1), LAMBDA p2 :
    Bind(parse_var_or_imm(p2, h1[c.cmd].obj.val_b, FALSE), LAMBDA b :
    Bind([h1 EXCEPT ![c.cmd].obj.val_b = b.op], LAMBDA h2 :
        IF ~b.ok THEN Discard(b.parser, h2, w.stdout, c.cmd)
        ELSE
    Bind([h2 EXCEPT ![c.cmd].obj.is_b_immediate = b.is_immediate], LAMBDA h3 :
        Terminate(b.parser, h3, w.stdout, c.cmd))))))))

\* the loop of the default case: to the end of the line
RECURSIVE SkipRestOfLine(_)
SkipRestOfLine(p) ==
    IF p.current.type # "TOK_NL" /\ p.current.type # "TOK_EOF"
    THEN Bind(advance(p), LAMBDA q : SkipRestOfLine(q))
    ELSE p

\* a default case that reports and leaves the rest of the line in place
case_default_NoSkip(w) ==
    Bind(print_error(w.parser, w.stdout), LAMBDA e :
        [ret |-> NULL, parser |-> e.parser, heap |-> w.heap, stdout |-> e.stdout])

\* default: one report, then the rest of the line is skipped
case_default(w) ==
    Bind(print_error(w.parser, w.stdout), LAMBDA e :
        [ret |-> NULL, parser |-> SkipRestOfLine(e.parser), heap |-> w.heap,
         stdout |-> e.stdout])

\* the switch of parse_cmd on the current token's type
Switch(v) ==
    CASE v.parser.current.type = "TOK_ADD"   -> case_TOK_ADD(v, "CMD_ADD")
      [] v.parser.current.type = "TOK_SUB"   -> case_TOK_SUB(v, "CMD_SUB")
      [] v.parser.current.type = "TOK_MOV"   -> case_TOK_MOV(v, "CMD_MOV")
      [] v.parser.current.type = "TOK_CMP"   -> case_TOK_CMP(v, "CMD_CMP")
      [] v.parser.current.type = "TOK_CMP_U" -> case_TOK_CMP_U(v, "CMD_CMP_U")
      [] v.parser.current.type = "TOK_PRINT" -> case_TOK_PRINT(v, "CMD_PRINT")
      [] OTHER                               -> case_default(v)

\* a parse_cmd that does not skip the newlines before the instruction
parse_cmd_NoSkipNls(w) ==
    IF w.parser.had_error \/ w.parser.current.type = "TOK_EOF"
    THEN [ret |-> NULL, parser |-> w.parser, heap |-> w.heap, stdout |-> w.stdout]
    ELSE Bind([parser |-> w.parser, heap |-> w.heap, stdout |-> w.stdout], Switch)

\* parse_cmd on the world w = [parser, heap, stdout]: the world after it and
\* the returned Command (NULL for none)
parse_cmd(w) ==
    Bind(skip_nls(w.parser), LAMBDA p :
        IF p.had_error \/ p.current.type = "TOK_EOF"
        THEN [ret |-> NULL, parser |-> p, heap |-> w.heap, stdout |-> w.stdout]
        ELSE Bind([parser |-> p, heap |-> w.heap, stdout |-> w.stdout], Switch))

\* the recovery loop of parse_commands: to the end of the line
RECURSIVE RecoverySkip(_)
RecoverySkip(p) ==
    IF p.current.type # "TOK_NL" /\ p.current.type # "TOK_EOF"
    THEN Bind(advance(p), LAMBDA q : RecoverySkip(q))
    ELSE p

\* a linking that starts the list again at every command
Link_Restart(h, hd, tl, cmd) ==
    IF cmd # NULL
    THEN [heap |-> h, head |-> cmd, tail |-> cmd]
    ELSE [heap |-> h, head |-> hd, tail |-> tl]

\* if (cmd) { if (!head) head = cmd; else tail->next = cmd; tail = cmd; }
Link(h, hd, tl, cmd) ==
    IF cmd # NULL
    THEN [heap |-> IF hd = NULL THEN h ELSE [h EXCEPT ![tl].obj.next = cmd],
          head |-> IF hd = NULL THEN cmd ELSE hd,
          tail |-> cmd]
    ELSE [heap |-> h, head |-> hd, tail |-> tl]

\* the state parse_commands works on
World == [parser |-> parser, heap |-> heap, stdout |-> stdout,
          head |-> head, tail |-> tail]

\* the loop body up to the error check: parse_cmd and the linking of its result
LoopBody(st) ==
    Bind(parse_cmd([parser |-> st.parser, heap |-> st.heap, stdout |-> st.stdout]),
         LAMBDA r :
    Bind(Link(r.heap, st.head, st.tail, r.ret), LAMBDA l :
        [parser |-> r.parser, heap |-> l.heap, stdout |-> r.stdout,
         head |-> l.head, tail |-> l.tail, cmd |-> r.ret]))

\* if (had_error) { skip to the end of the line; had_error = false; }
Recovery(p) ==
    IF p.had_error THEN [RecoverySkip(p) EXCEPT !.had_error = FALSE] ELSE p

\* parse_commands as a function: the world when the loop has ended
RECURSIVE parse_commands(_)
parse_commands(st) ==
    IF is_at_end(st.parser)
    THEN st
    ELSE Bind(LoopBody(st), LAMBDA b :
         Bind([parser |-> Recovery(b.parser), heap |-> b.heap,
               stdout |-> b.stdout, head |-> b.head, tail |-> b.tail],
              parse_commands))

----------------------------------------------------------------------------
(* Inputs *)

MaxArgs   == 4      \* words after the first word of a single-line program
MaxLines  == 3      \* lines of a multi-line program
MaxLexLen == 4      \* characters of an exhaustively enumerated operand word

SeqsUpTo(S, n) == UNION {[1..k -> S] : k \in 0..n}

RECURSIVE JoinWith(_, _)
JoinWith(parts, sep) ==
    IF parts = <<>> THEN <<>>
    ELSE IF Len(parts) = 1 THEN parts[1]
    ELSE parts[1] \o sep \o JoinWith(Tail(parts), sep)

\* the text of a program: words separated by a blank, lines by a line break
ProgramText(lines, finalNewline) ==
    JoinWith([i \in 1..Len(lines) |-> JoinWith(lines[i], <<" ">>)], <<"\n">>)
        \o (IF finalNewline THEN <<"\n">> ELSE <<>>)

W_add   == Keywords["TOK_ADD"]
W_sub   == Keywords["TOK_SUB"]
W_mov   == Keywords["TOK_MOV"]
W_cmp   == Keywords["TOK_CMP"]
W_cmp_u == Keywords["TOK_CMP_U"]
W_print == Keywords["TOK_PRINT"]
W_bogus == <<"b", "o", "g", "u", "s">>
W_x     == <<"x">>
W_x1    == <<"x", "1">>
W_x2    == <<"x", "2">>
W_x3    == <<"x", "3">>
W_x32   == <<"x", "3", "2">>
W_1     == <<"1">>
W_2     == <<"2">>
W_3     == <<"3">>
W_5     == <<"5">>
W_7     == <<"7">>
W_07    == <<"0", "7">>
W_0xFF  == <<"0", "x", "F", "F">>
W_0x1G  == <<"0", "x", "1", "G">>

LeadWords == {W_add, W_sub, W_mov, W_cmp, W_cmp_u, W_print, W_bogus}

\* operand words: a register, a decimal literal, a decimal literal with a
\* leading zero, a base signifier (also a lone x), a malformed literal
ArgWords == {W_x1, W_5, W_07, W_x, W_0x1G}

SingleLines == {<<k>> \o a : k \in LeadWords, a \in SeqsUpTo(ArgWords, MaxArgs)}

SmallLines ==
    { <<>>,
      <<W_add, W_x1, W_x2, W_3>>,
      <<W_mov, W_x3, W_x1>>,
      <<W_bogus>>,
      <<W_add, W_x1, W_x2>>,
      <<W_print, W_x, W_0xFF>>,
      <<W_cmp, W_x1, W_5, W_7>>,
      <<W_sub, W_x32, W_1, W_2>> }

Programs ==
    {<<l>> : l \in SingleLines}
        \cup (SeqsUpTo(SmallLines, MaxLines) \ SeqsUpTo(SmallLines, 1))

ProgramTexts == {ProgramText(pr, nl) : pr \in Programs, nl \in BOOLEAN}

\* no operand function has been called directly
NoCall == [fn |-> "none"]

----------------------------------------------------------------------------
(* parse_commands over a program text *)

Init ==
    \E p \in {parser_init(Lexer(text)) : text \in ProgramTexts} :
        /\ parser = p
        /\ heap = <<>>
        /\ stdout = <<>>
        /\ head = NULL
        /\ tail = NULL
        /\ pc = "loop"
        /\ accepted = <<>>
        /\ call = NoCall

\* Command *cmd = parse_cmd(parser); if (cmd) { ... }
ParseCmd ==
    /\ pc = "loop"
    /\ ~is_at_end(parser)
    /\ \E b \in {LoopBody(World)} :
           /\ parser' = b.parser
           /\ heap' = b.heap
           /\ stdout' = b.stdout
           /\ head' = b.head
           /\ tail' = b.tail
           /\ accepted' = IF b.cmd # NULL THEN Append(accepted, b.cmd) ELSE accepted
    /\ pc' = "recover"
    /\ UNCHANGED call

\* if (parser->had_error) { ... }
Recover ==
    /\ pc = "recover"
    /\ parser' = Recovery(parser)
    /\ pc' = "loop"
    /\ UNCHANGED <<heap, stdout, head, tail, accepted, call>>

\* the loop ends at end-of-input; print_commands(head) lists the commands
\* (stdout here keeps the reports of print_error only); return head;
Return ==
    /\ pc = "loop"
    /\ is_at_end(parser)
    /\ pc' = "done"
    /\ UNCHANGED <<parser, heap, stdout, head, tail, accepted, call>>

Next == ParseCmd \/ Recover \/ Return

Spec == Init /\ [][Next]_vars

\* parse_commands over the programs of several lines, valid and malformed
InitLive ==
    \E p \in {parser_init(Lexer(ProgramText(pr, nl))) :
                  pr \in SeqsUpTo(SmallLines, MaxLines), nl \in BOOLEAN} :
        /\ parser = p
        /\ heap = <<>>
        /\ stdout = <<>>
        /\ head = NULL
        /\ tail = NULL
        /\ pc = "loop"
        /\ accepted = <<>>
        /\ call = NoCall

\* parse_commands runs on one thread that is never suspended: a step that
\* can be taken is taken
SpecLive == InitLive /\ [][Next]_vars /\ WF_vars(Next)

----------------------------------------------------------------------------
(* The operand functions called directly on the first token of a text *)

OperandAlphabet == {"0", "1", "9", "x", "b", "G"}

BoundedWords == UNION {[1..k -> OperandAlphabet] : k \in 1..MaxLexLen}

ExampleWords ==
    { <<"0", "x", "1", "F">>, <<"0", "b", "1", "0", "1">>, <<"4", "2">>,
      <<"0", "x", "1", "G">>, <<"0", "x", "g", "1">>, <<"1", "0", "x">>,
      <<"0">>, <<"7">>, <<"1", "0">>, <<"0", "0", "7">>,
      <<"0", "X", "1", "f">>, <<"0", "B", "1", "1">>, <<"0", "x", "F", "F">>,
      <<"x", "0">>, <<"x", "7">>, <<"x", "3", "1">>, <<"x", "3", "2">>,
      <<"x", "0", "3", "1">>, <<"x", "-", "1">>, <<"x", "-", "0">>,
      <<"x", "+", "5">>, <<"x", "a">>, <<"x", "1", "a">>, <<"y", "1">>,
      <<"d">>, <<"s">>, W_add, W_print, W_bogus }

\* what follows the word: nothing, a line break, another operand
OperandTails == { <<>>, <<"\n">>, <<" ", "5", "\n">> }

OperandTexts ==
    {w \o t : w \in BoundedWords \cup ExampleWords \cup {<<>>}, t \in OperandTails}

\* an operand whose fields all differ from what a call may store
MarkedOperand == [num_val |-> U64(77), base |-> 77, str_val |-> NullStr]

InitOperand ==
    \E p \in {parser_init(Lexer(text)) : text \in OperandTexts} :
        /\ parser = p
        /\ heap = <<>>
        /\ stdout = <<>>
        /\ head = NULL
        /\ tail = NULL
        /\ pc = "operand"
        /\ accepted = <<>>
        /\ call = NoCall

CallParseImm ==
    /\ pc = "operand"
    /\ \E r \in {parse_imm(parser, MarkedOperand)} :
           /\ parser' = r.parser
           /\ call' = [fn |-> "parse_imm", ok |-> r.ok, op |-> r.op,
                       is_immediate |-> FALSE, arg_immediate |-> FALSE,
                       before |-> parser]
    /\ pc' = "returned"
    /\ UNCHANGED <<heap, stdout, head, tail, accepted>>

CallParseVariableOperand ==
    /\ pc = "operand"
    /\ \E r \in {parse_variable_operand(parser, MarkedOperand)} :
           /\ parser' = r.parser
           /\ call' = [fn |-> "parse_variable_operand", ok |-> r.ok, op |-> r.op,
                       is_immediate |-> FALSE, arg_immediate |-> FALSE,
                       before |-> parser]
    /\ pc' = "returned"
    /\ UNCHANGED <<heap, stdout, head, tail, accepted>>

CallParseVarOrImm ==
    /\ pc = "operand"
    /\ \E imm \in BOOLEAN :
       \E r \in {parse_var_or_imm(parser, MarkedOperand, imm)} :
           /\ parser' = r.parser
           /\ call' = [fn |-> "parse_var_or_imm", ok |-> r.ok, op |-> r.op,
                       is_immediate |-> r.is_immediate, arg_immediate |-> imm,
                       before |-> parser]
    /\ pc' = "returned"
    /\ UNCHANGED <<heap, stdout, head, tail, accepted>>

NextOperand == CallParseImm \/ CallParseVariableOperand \/ CallParseVarOrImm

SpecOperand == InitOperand /\ [][NextOperand]_vars

\* both: parse_commands over a program, or one operand function on a token
InitAll == Init \/ InitOperand

NextAll == Next \/ NextOperand

SpecAll == InitAll /\ [][NextAll]_vars

----------------------------------------------------------------------------
(* The operand functions called on literals around 2^64 *)

MaxHexZeros == 16   \* zeros between the first and the last digit of a 0x literal
MaxDecZeros == 19   \* the same of a decimal literal
MaxBinZeros == 63   \* the same of a 0b literal

RECURSIVE Zeros(_)
Zeros(k) == IF k = 0 THEN <<>> ELSE <<"0">> \o Zeros(k - 1)

W_2pow64m1 == <<"1", "8", "4", "4", "6", "7", "4", "4", "0", "7", "3", "7", "0", "9", "5", "5", "1", "6", "1", "5">>
W_2pow64   == <<"1", "8", "4", "4", "6", "7", "4", "4", "0", "7", "3", "7", "0", "9", "5", "5", "1", "6", "1", "6">>
W_2pow64p1 == <<"1", "8", "4", "4", "6", "7", "4", "4", "0", "7", "3", "7", "0", "9", "5", "5", "1", "6", "1", "7">>
W_hexMax   == <<"0", "x", "F", "F", "F", "F", "F", "F", "F", "F", "F", "F", "F", "F", "F", "F", "F", "F">>

WideWords ==
    {<<"0", "x", l>> \o Zeros(k) \o <<t>> :
         l \in {"1", "8", "F"}, k \in (MaxHexZeros - 3)..MaxHexZeros, t \in {"0", "1", "f"}}
    \cup {<<l>> \o Zeros(k) \o <<t>> :
         l \in {"1", "9"}, k \in (MaxDecZeros - 3)..MaxDecZeros, t \in {"0", "7"}}
    \cup {<<"0", "b", "1">> \o Zeros(k) \o <<t>> :
         k \in (MaxBinZeros - 3)..MaxBinZeros, t \in {"0", "1"}}
    \cup {W_2pow64m1, W_2pow64, W_2pow64p1, W_hexMax,
          <<"4", "2">>, <<"0", "x", "1", "F">>, <<"0", "b", "1", "0", "1">>}

WideTexts == {w \o t : w \in WideWords, t \in {<<>>, <<"\n">>}}

InitWide ==
    \E p \in {parser_init(Lexer(text)) : text \in WideTexts} :
        /\ parser = p
        /\ heap = <<>>
        /\ stdout = <<>>
        /\ head = NULL
        /\ tail = NULL
        /\ pc = "operand"
        /\ accepted = <<>>
        /\ call = NoCall

SpecWide == InitWide /\ [][NextOperand]_vars

----------------------------------------------------------------------------
(* The token buffer called directly: advance, consume and consume_newline   *)
(* in any order on the parser of a text                                     *)

MaxBufferLines == 2     \* lines of a text the buffer functions are called on
MaxEndCalls    == 3     \* calls made with current at end-of-input

BufferTexts ==
    {ProgramText(pr, nl) : pr \in SeqsUpTo(SmallLines, MaxBufferLines), nl \in BOOLEAN}

ConsumeTypes == {"TOK_NL", "TOK_EOF", "TOK_IDENT", "TOK_NUM", "TOK_ADD"}

InitBuffer ==
    \E p \in {parser_init(Lexer(text)) : text \in BufferTexts} :
        /\ parser = p
        /\ heap = <<>>
        /\ stdout = <<>>
        /\ head = NULL
        /\ tail = NULL
        /\ pc = "buffer"
        /\ accepted = <<>>
        /\ call = [fn |-> "parser_init", ok |-> TRUE, ret |-> <<>>, before |-> p,
                   consumed |-> <<>>, end_calls |-> 0]

\* the record of a call that took the parser from `parser` to q: `consumed`
\* is the history of the tokens the buffer was shifted past
BufferCall(fn, ok, ret, q) ==
    [fn |-> fn, ok |-> ok, ret |-> ret, before |-> parser,
     consumed  |-> IF q.lexer.pulled # parser.lexer.pulled \/ q.current # parser.current
                   THEN Append(call.consumed, parser.current) ELSE call.consumed,
     end_calls |-> IF is_at_end(parser) THEN call.end_calls + 1 ELSE call.end_calls]

\* Token t = advance(parser);
CallAdvance ==
    /\ pc = "buffer"
    /\ call.end_calls < MaxEndCalls
    /\ \E q \in {advance(parser)} :
           /\ parser' = q
           /\ call' = BufferCall("advance", TRUE, <<parser.current>>, q)
    /\ UNCHANGED <<heap, stdout, head, tail, pc, accepted>>

\* bool ok = consume(parser, type);
CallConsume ==
    /\ pc = "buffer"
    /\ call.end_calls < MaxEndCalls
    /\ \E type \in ConsumeTypes :
       \E r \in {consume(parser, type)} :
           /\ parser' = r.parser
           /\ call' = BufferCall("consume", r.ok, <<>>, r.parser)
    /\ UNCHANGED <<heap, stdout, head, tail, pc, accepted>>

\* bool ok = consume_newline(parser);
CallConsumeNewline ==
    /\ pc = "buffer"
    /\ call.end_calls < MaxEndCalls
    /\ \E r \in {consume_newline(parser)} :
           /\ parser' = r.parser
           /\ call' = BufferCall("consume_newline", r.ok, <<>>, r.parser)
    /\ UNCHANGED <<heap, stdout, head, tail, pc, accepted>>

NextBuffer == CallAdvance \/ CallConsume \/ CallConsumeNewline

SpecBuffer == InitBuffer /\ [][NextBuffer]_vars

\* both: parse_commands over a program, or the buffer functions on a text
InitEnd == Init \/ InitBuffer

NextEnd == Next \/ NextBuffer

SpecEnd == InitEnd /\ [][NextEnd]_vars

----------------------------------------------------------------------------
(* The grammar of the specification, stated on words: what the claims call  *)
(* a register, a numeric literal, a well-formed instruction.                *)

\* the characters of a token
WordOf(text, token) == SubSeq(text, token.lexeme, token.lexeme + token.length - 1)

IsDecimalString(w) == w # <<>> /\ \A i \in 1..Len(w) : w[i] \in Range(DecDigits)

RECURSIVE DecimalValue(_)
DecimalValue(w) ==
    IF w = <<>> THEN 0
    ELSE DecimalValue(SubSeq(w, 1, Len(w) - 1)) * 10 + DecVal(w[Len(w)])

\* a base-10 integer: an optional sign and at least one decimal digit
IsInteger(w) ==
    /\ w # <<>>
    /\ IsDecimalString(IF w[1] \in {"+", "-"} THEN Tail(w) ELSE w)

IntegerValue(w) ==
    IF w[1] = "-" THEN 0 - DecimalValue(Tail(w))
    ELSE IF w[1] = "+" THEN DecimalValue(Tail(w))
    ELSE DecimalValue(w)

\* x followed by a base-10 integer in [0, 31]
IsRegisterWord(w) ==
    /\ Len(w) >= 2
    /\ w[1] = "x"
    /\ IsInteger(Tail(w))
    /\ IntegerValue(Tail(w)) >= 0
    /\ IntegerValue(Tail(w)) <= 31

RegisterIndex(w) == IntegerValue(Tail(w))

HasPrefix(w, a, b) == Len(w) >= 2 /\ w[1] = "0" /\ w[2] \in {a, b}

\* the base a literal's prefix announces
LiteralBase(w) ==
    IF HasPrefix(w, "x", "X") THEN 16 ELSE IF HasPrefix(w, "b", "B") THEN 2 ELSE 10

\* the digits of a literal: what follows its base prefix
LiteralDigits(w) == IF LiteralBase(w) = 10 THEN w ELSE SubSeq(w, 3, Len(w))

\* the value of a digit of the base, -1 for a character that is none
DigitValue(c, base) ==
    IF c \in Range(DecDigits) /\ DecVal(c) < base THEN DecVal(c)
    ELSE IF base = 16 /\ c \in Range(HexLower) THEN HexLowerVal(c)
    ELSE IF base = 16 /\ c \in Range(HexUpper) THEN HexUpperVal(c)
    ELSE 0 - 1

\* every digit of the literal is a digit of its base
HasValidDigits(w) ==
    \A i \in 1..Len(LiteralDigits(w)) : DigitValue(LiteralDigits(w)[i], LiteralBase(w)) >= 0

RECURSIVE PositionalValue(_, _)
PositionalValue(ds, base) ==
    IF ds = <<>> THEN 0
    ELSE PositionalValue(SubSeq(ds, 1, Len(ds) - 1), base) * base
             + DigitValue(ds[Len(ds)], base)

\* the number a literal denotes (for a literal short enough to stay below 2^31)
LiteralValue(w) == PositionalValue(LiteralDigits(w), LiteralBase(w))

\* a numeric literal of the language: decimal, 0x hexadecimal or 0b binary
IsLiteralWord(w) ==
    /\ w # <<>>
    /\ w[1] \in Range(DecDigits)
    /\ LiteralDigits(w) # <<>>
    /\ HasValidDigits(w)

\* the tokens of a text, to the end-of-input token
RECURSIVE TokensFrom(_)
TokensFrom(lx) ==
    Bind(lexer_next_token(lx), LAMBDA r :
        IF r.token.type = "TOK_EOF"
        THEN <<r.token>>
        ELSE <<r.token>> \o TokensFrom(r.lexer))

TokenStream(text) == TokensFrom(Lexer(text))

\* a token stream cut into lines, each with the newline or end-of-input token
\* that ends it
RECURSIVE SplitLines(_, _)
SplitLines(toks, cur) ==
    IF toks = <<>> THEN <<>>
    ELSE IF Head(toks).type \in {"TOK_NL", "TOK_EOF"}
    THEN <<Append(cur, Head(toks))>> \o SplitLines(Tail(toks), <<>>)
    ELSE SplitLines(Tail(toks), Append(cur, Head(toks)))

SourceLines(text) == SplitLines(TokenStream(text), <<>>)

IsBlank(line) == Len(line) = 1

\* the operand slots of each instruction, after the keyword
Slots(keyword) ==
    CASE keyword \in {"TOK_ADD", "TOK_SUB"}   -> <<"register", "operand", "operand">>
      [] keyword = "TOK_MOV"                  -> <<"register", "operand">>
      [] keyword \in {"TOK_CMP", "TOK_CMP_U"} -> <<"operand", "operand">>
      [] keyword = "TOK_PRINT"                -> <<"base", "operand">>

IsRegisterToken(text, tok) == tok.type = "TOK_IDENT" /\ IsRegisterWord(WordOf(text, tok))

IsLiteralToken(text, tok) == tok.type = "TOK_NUM" /\ IsLiteralWord(WordOf(text, tok))

BaseWords == { <<"d">>, <<"x">>, <<"b">>, <<"s">> }

SlotOk(text, slot, tok) ==
    CASE slot = "register" -> IsRegisterToken(text, tok)
      [] slot = "operand"  -> IsRegisterToken(text, tok) \/ IsLiteralToken(text, tok)
      [] slot = "base"     -> WordOf(text, tok) \in BaseWords

\* the grammar check made at the i-th token of a line fails
CheckFails(text, line, i) ==
    IF i = 1 THEN line[1].type \notin KeywordTypes
    ELSE IF i - 1 <= Len(Slots(line[1].type))
    THEN ~SlotOk(text, Slots(line[1].type)[i - 1], line[i])
    ELSE line[i].type \notin {"TOK_NL", "TOK_EOF"}

WellFormed(text, line) ==
    /\ ~IsBlank(line)
    /\ line[1].type \in KeywordTypes
    /\ Len(line) = Len(Slots(line[1].type)) + 2
    /\ \A i \in 1..Len(line) : ~CheckFails(text, line, i)

Malformed(text, line) == ~IsBlank(line) /\ ~WellFormed(text, line)

\* the token of a malformed line at which the first failing check is made
OffendingToken(text, line) ==
    line[CHOOSE i \in 1..Len(line) :
             /\ CheckFails(text, line, i)
             /\ \A j \in 1..(i - 1) : ~CheckFails(text, line, j)]

\* the report of a token: text or end-of-input marker, kind, length, line, column
DiagOf(text, tok) ==
    [text   |-> IF tok.type = "TOK_EOF" THEN <<"E", "O", "F">> ELSE WordOf(text, tok),
     type   |-> tok.type,
     length |-> tok.length,
     line   |-> tok.line,
     column |-> tok.column]

CommandTypeOf(keyword) ==
    CASE keyword = "TOK_ADD"   -> "CMD_ADD"
      [] keyword = "TOK_SUB"   -> "CMD_SUB"
      [] keyword = "TOK_MOV"   -> "CMD_MOV"
      [] keyword = "TOK_CMP"   -> "CMD_CMP"
      [] keyword = "TOK_CMP_U" -> "CMD_CMP_U"
      [] keyword = "TOK_PRINT" -> "CMD_PRINT"

\* the operand slot holds what the token wrote: a register index, not
\* immediate, or a literal's value, immediate
OperandMatches(text, op, isImmediate, tok) ==
    IF tok.type = "TOK_IDENT"
    THEN op.base = RegisterIndex(WordOf(text, tok)) /\ ~isImmediate
    ELSE op.num_val = U64(LiteralValue(WordOf(text, tok))) /\ isImmediate

\* the command is the one a well-formed line writes
CommandMatches(text, obj, line) ==
    /\ obj.type = CommandTypeOf(line[1].type)
    /\ CASE line[1].type \in {"TOK_ADD", "TOK_SUB"} ->
              /\ obj.destination.base = RegisterIndex(WordOf(text, line[2]))
              /\ OperandMatches(text, obj.val_a, obj.is_a_immediate, line[3])
              /\ OperandMatches(text, obj.val_b, obj.is_b_immediate, line[4])
         [] line[1].type = "TOK_MOV" ->
              /\ obj.destination.base = RegisterIndex(WordOf(text, line[2]))
              /\ OperandMatches(text, obj.val_a, obj.is_a_immediate, line[3])
         [] line[1].type \in {"TOK_CMP", "TOK_CMP_U"} ->
              /\ OperandMatches(text, obj.val_a, obj.is_a_immediate, line[2])
              /\ OperandMatches(text, obj.val_b, obj.is_b_immediate, line[3])
         [] line[1].type = "TOK_PRINT" ->
              /\ ~obj.is_a_immediate
              /\ OperandMatches(text, obj.val_b, obj.is_b_immediate, line[3])

\* the addresses of the list that starts at c, following next to NULL
RECURSIVE ListFrom(_, _, _)
ListFrom(h, c, fuel) ==
    IF c = NULL \/ fuel = 0 THEN <<>>
    ELSE <<c>> \o ListFrom(h, h[c].obj.next, fuel - 1)

ListOf(st) == ListFrom(st.heap, st.head, Len(st.heap) + 1)

Source == parser.lexer.source

InstructionLines == SelectSeq(SourceLines(Source), LAMBDA l : ~IsBlank(l))

MalformedLines == SelectSeq(SourceLines(Source), LAMBDA l : Malformed(Source, l))

----------------------------------------------------------------------------
(* Claims on the operand functions (SpecOperand) *)

\* the token an operand function was called on, and its characters
CalledToken == call.before.current

CalledWord == WordOf(call.before.lexer.source, CalledToken)

Returned(fn) == pc = "returned" /\ call.fn = fn

\* C6: when parse_var_or_imm fails, the parser position is unchanged: current
\* and next are the same tokens as before the call and no token is pulled
\* from the lexer.
C6_FailureLeavesPosition ==
    (Returned("parse_var_or_imm") /\ ~call.ok) =>
        /\ parser.current = call.before.current
        /\ parser.next = call.before.next
        /\ parser.lexer.pulled = call.before.lexer.pulled

\* C7: parse_imm accepts a numeric token only if every character after the
\* base prefix is a digit of the detected base, and then stores the literal's
\* value and consumes the token; a rejected token leaves the operand
\* unwritten and the position unchanged.  0x1F is 31, 0b101 is 5, 42 is 42;
\* 0x1G, 0xg1 and 10x are rejected.
C7_ImmediateStrict ==
    Returned("parse_imm") =>
        /\ call.ok =>
              /\ CalledToken.type = "TOK_NUM"
              /\ HasValidDigits(CalledWord)
              /\ call.op = [MarkedOperand EXCEPT !.num_val = U64(LiteralValue(CalledWord))]
              /\ parser = advance(call.before)
        /\ ~call.ok => (call.op = MarkedOperand /\ parser = call.before)
        /\ CalledWord = <<"0", "x", "1", "F">> => (call.ok /\ call.op.num_val = U64(31))
        /\ CalledWord = <<"0", "b", "1", "0", "1">> => (call.ok /\ call.op.num_val = U64(5))
        /\ CalledWord = <<"4", "2">> => (call.ok /\ call.op.num_val = U64(42))
        /\ CalledWord \in { <<"0", "x", "1", "G">>, <<"0", "x", "g", "1">>,
                            <<"1", "0", "x">> } => ~call.ok

C7_Witness ==
    /\ Returned("parse_imm")
    /\ CalledWord = <<"0", "x", "1", "F">>
    /\ call.ok
    /\ call.op.num_val = U64(31)

\* C8: every numeric token made only of decimal digits, leading zeros
\* included, is accepted with its base-10 value.
C8_DecimalTotal ==
    (Returned("parse_imm") /\ CalledToken.type = "TOK_NUM" /\ IsDecimalString(CalledWord)) =>
        /\ call.ok
        /\ call.op.num_val = U64(DecimalValue(CalledWord))

\* C9, on the token: parse_variable_operand accepts an identifier exactly when
\* it is x followed by a base-10 integer in [0, 31], and then stores that index.
C9_RegisterToken ==
    Returned("parse_variable_operand") =>
        /\ call.ok <=> (CalledToken.type = "TOK_IDENT" /\ IsRegisterWord(CalledWord))
        /\ call.ok => (call.op = [MarkedOperand EXCEPT !.base = RegisterIndex(CalledWord)]
                       /\ call.op.base \in 0..31)
        /\ CalledWord \in { <<"x", "0">>, <<"x", "3", "1">> } => call.ok
        /\ CalledWord \in { <<"x", "3", "2">>, <<"x">>, <<"x", "a">>, <<"x", "-", "1">> } => ~call.ok

\* C9, on the list: every register index stored in a command lies in [0, 31].
C9_RegisterIndices ==
    \A i \in 1..Len(heap) :
        /\ heap[i].obj.destination.base \in 0..31
        /\ heap[i].obj.val_a.base \in 0..31
        /\ heap[i].obj.val_b.base \in 0..31

\* C9: an identifier is a register operand if and only if it is x followed by
\* a base-10 integer in [0, 31] (x0 to x31 accepted; x32, a lone x and
\* non-numeric remainders rejected), so every register index stored in a
\* command lies in [0, 31].
C9_RegisterBounds == C9_RegisterToken /\ C9_RegisterIndices

C9_Witness ==
    /\ Returned("parse_variable_operand")
    /\ CalledWord = <<"x", "3", "1">>
    /\ call.ok
    /\ call.op.base = 31

----------------------------------------------------------------------------
(* Claims on parse_commands (Spec) *)

\* C1: a well-formed single instruction, ended by a newline or end-of-input,
\* yields a list of exactly one command of the keyword's kind whose
\* destination and operands hold the register index or immediate value
\* written, with is_immediate true exactly for a numeric literal.
C1_SingleInstruction ==
    (pc = "done" /\ Len(InstructionLines) = 1
                 /\ WellFormed(Source, InstructionLines[1])) =>
        /\ Len(ListOf(World)) = 1
        /\ CommandMatches(Source, heap[head].obj, InstructionLines[1])

\* the commands of a list by value, the print base cut to its character
ValuesOf(st) ==
    [i \in 1..Len(ListOf(st)) |->
        [st.heap[ListOf(st)[i]].obj EXCEPT
            !.next = NULL,
            !.val_a.str_val = IF @ = NullStr THEN NullStr ELSE <<@[1]>>]]

StartWorld(text) ==
    [parser |-> parser_init(Lexer(text)), heap |-> <<>>, stdout |-> <<>>,
     head |-> NULL, tail |-> NULL]

\* the text of the i-th line of the source, its line break included
LineText(text, lines, i) ==
    SubSeq(text,
           IF i = 1 THEN 1 ELSE lines[i - 1][Len(lines[i - 1])].lexeme + 1,
           IF lines[i][Len(lines[i])].type = "TOK_NL"
           THEN lines[i][Len(lines[i])].lexeme ELSE Len(text))

RECURSIVE KeepLines(_, _, _)
KeepLines(text, lines, i) ==
    IF i > Len(lines) THEN <<>>
    ELSE (IF Malformed(text, lines[i]) THEN <<>> ELSE LineText(text, lines, i))
             \o KeepLines(text, lines, i + 1)

\* the source text with its malformed lines left out
WithoutMalformedLines(text) == KeepLines(text, SourceLines(text), 1)

\* C2: a malformed line produces no command, and the other lines are parsed
\* exactly as they would be if the malformed line were not there.
C2_ErrorContainment ==
    pc = "done" =>
        ValuesOf(World) = ValuesOf(parse_commands(StartWorld(WithoutMalformedLines(Source))))

\* C3: the list is exactly the sequence of commands parse_cmd returned, linked
\* through next in source order and ending with a null link; a failed
\* instruction leaves no placeholder and breaks no link, and the head is null
\* exactly when no instruction was accepted.
C3_ListIsAccepted ==
    /\ ListOf(World) = accepted
    /\ head = NULL <=> accepted = <<>>
    /\ accepted # <<>> =>
          /\ tail = accepted[Len(accepted)]
          /\ heap[tail].obj.next = NULL
    /\ \A i \in 1..Len(accepted) : heap[accepted[i]].freed = 0
    /\ \A i \in 1..(Len(accepted) - 1) : accepted[i] < accepted[i + 1]

\* a discarded command lies between two accepted ones
C3_Witness ==
    /\ pc = "done"
    /\ Len(accepted) = 2
    /\ ListOf(World) = accepted
    /\ \E i \in 1..Len(heap) :
           heap[i].freed = 1 /\ accepted[1] < i /\ i < accepted[2]

\* C4: each malformed instruction yields exactly one diagnostic, which reports
\* the text (or end-of-input marker), kind, length, line and column of the
\* offending token on the instruction's own line; n malformed lines yield n
\* diagnostics.
C4_OneDiagnosticPerLine ==
    pc = "done" =>
        stdout = [i \in 1..Len(MalformedLines) |->
                     DiagOf(Source, OffendingToken(Source, MalformedLines[i]))]

\* the token parse_cmd meets at the instruction boundary, after the newlines
BoundaryToken == skip_nls(parser).current

\* the newline or end-of-input token that ends the line of tok
LineEndOf(text, tok) ==
    LET toks == TokenStream(text)
    IN  toks[CHOOSE i \in 1..Len(toks) :
                 /\ toks[i].type \in {"TOK_NL", "TOK_EOF"}
                 /\ toks[i].lexeme >= tok.lexeme
                 /\ \A j \in 1..(i - 1) :
                        toks[j].type \in {"TOK_NL", "TOK_EOF"} => toks[j].lexeme < tok.lexeme]

\* parse_cmd at a boundary token that is no keyword: no command, one report
\* that names the token, and the parser at the end of that token's line
C5_Step ==
    (pc = "loop" /\ ~is_at_end(parser)
                 /\ BoundaryToken.type \notin (KeywordTypes \cup {"TOK_EOF"})) =>
        /\ accepted' = accepted
        /\ heap' = heap
        /\ head' = head
        /\ stdout' = Append(stdout, DiagOf(Source, BoundaryToken))
        /\ parser'.current = LineEndOf(Source, BoundaryToken)
        /\ parser'.current.line = BoundaryToken.line

\* the recovery after it discards nothing of the following line
C5_Recovery ==
    (pc = "recover" /\ parser.current.type \in {"TOK_NL", "TOK_EOF"}) =>
        parser' = [parser EXCEPT !.had_error = FALSE]

ScenarioText ==
    ProgramText(<< <<W_add, W_x1, W_x2, W_3>>, <<W_bogus>>, <<W_mov, W_x3, W_x1>> >>, TRUE)

C5_Scenario ==
    (pc = "done" /\ Source = ScenarioText) =>
        /\ [i \in 1..Len(ListOf(World)) |-> heap[ListOf(World)[i]].obj.type]
               = <<"CMD_ADD", "CMD_MOV">>
        /\ stdout = << [text |-> W_bogus, type |-> "TOK_IDENT", length |-> 5,
                        line |-> 2, column |-> 1] >>

\* C5: a token at an instruction boundary that is no keyword yields no command
\* and exactly one diagnostic that names the token and its line; the rest of
\* that line, and only that line, is discarded and the following line is
\* parsed normally.  "add x1 x2 3\nbogus\nmov x3 x1\n" yields (ADD, MOV) and
\* one diagnostic for bogus at line 2.
C5_UnknownKeyword == [][C5_Step /\ C5_Recovery]_vars /\ []C5_Scenario

C5_Witness ==
    /\ pc = "done"
    /\ Source = ScenarioText
    /\ Len(accepted) = 2
    /\ Len(stdout) = 1
    /\ stdout[1].text = W_bogus

\* C10: print with a base signifier d, x, b or s yields one PRINT command
\* whose operand_a is an owned string of exactly that one character and whose
\* operand_b holds the register index or immediate value; any other token in
\* the base position rejects the instruction.
C10_PrintBase ==
    (pc = "done" /\ Len(InstructionLines) = 1
                 /\ InstructionLines[1][1].type = "TOK_PRINT") =>
        IF WellFormed(Source, InstructionLines[1])
        THEN /\ Len(ListOf(World)) = 1
             /\ CommandMatches(Source, heap[head].obj, InstructionLines[1])
             /\ heap[head].obj.val_a.str_val
                    = WordOf(Source, InstructionLines[1][2]) \o <<NUL>>
        ELSE (WordOf(Source, InstructionLines[1][2]) \notin BaseWords)
                 => ListOf(World) = <<>>

----------------------------------------------------------------------------
(* Newlines and end-of-input *)

\* the offsets of a text at which a line begins or the last line ends
LineBoundaries(text) ==
    {1, Len(text) + 1} \cup {i + 1 : i \in {j \in 1..Len(text) : text[j] = "\n"}}

\* the text with k newline characters inserted before offset i
RECURSIVE Newlines(_)
Newlines(k) == IF k = 0 THEN <<>> ELSE <<"\n">> \o Newlines(k - 1)

InsertNewlines(text, i, k) ==
    SubSeq(text, 1, i - 1) \o Newlines(k) \o SubSeq(text, i, Len(text))

MaxExtraNewlines == 2

OnlyNewlines(text) == \A i \in 1..Len(text) : text[i] = "\n"

\* C11: newline tokens never produce a command or a diagnostic: extra newlines
\* inserted at a line boundary leave the returned command list and the number
\* of diagnostics unchanged, and an input of newlines only yields the null
\* list and no diagnostic.
C11_NewlinesAreInert ==
    pc = "done" =>
        /\ \A i \in LineBoundaries(Source) : \A k \in 1..MaxExtraNewlines :
               \E r \in {parse_commands(StartWorld(InsertNewlines(Source, i, k)))} :
                   /\ ValuesOf(r) = ValuesOf(World)
                   /\ Len(r.stdout) = Len(stdout)
        /\ OnlyNewlines(Source) => (head = NULL /\ stdout = <<>>)

\* the commands of a list by value, with only the links left out
CommandsOf(st) ==
    [i \in 1..Len(ListOf(st)) |-> [st.heap[ListOf(st)[i]].obj EXCEPT !.next = NULL]]

\* C12, the terminator: a text whose last line ends at end-of-input yields the
\* commands it yields with a newline after that line.
C12_EofTerminator ==
    (pc = "done" /\ Source # <<>> /\ Source[Len(Source)] # "\n") =>
        CommandsOf(World) = CommandsOf(parse_commands(StartWorld(Source \o <<"\n">>)))

\* C12, the buffer: a call of advance, consume or consume_newline made with
\* current at end-of-input leaves current and next unchanged and pulls no
\* token; advance returns the end-of-input token, consume(TOK_EOF) and
\* consume_newline succeed.
C12_AdvanceAtEnd ==
    (pc = "buffer" /\ call.fn # "parser_init" /\ is_at_end(call.before)) =>
        /\ parser.current = call.before.current
        /\ parser.next = call.before.next
        /\ parser.lexer.pulled = call.before.lexer.pulled
        /\ parser = call.before
        /\ call.fn = "advance" => call.ret = <<call.before.current>>
        /\ call.fn = "consume_newline" => call.ok

\* C12: end-of-input ends an instruction as a newline does, with the same
\* command, and advance is idempotent at the end of the stream.
C12_EndOfInput == C12_EofTerminator /\ C12_AdvanceAtEnd

----------------------------------------------------------------------------
(* Termination *)

\* an iteration of the driver loop pulls at least one token from the lexer
C13_Progress ==
    (pc = "loop" /\ pc' = "recover") => parser'.lexer.pulled > parser.lexer.pulled

\* the tokens pulled never exceed the stream by more than the lookahead, and
\* the parse has returned only at end-of-input, with the commands built
C13_AtEnd ==
    /\ parser.lexer.pulled <= Len(TokenStream(Source)) + 1
    /\ pc = "done" => (is_at_end(parser) /\ ListOf(World) = accepted)

\* C13: no error is fatal: for every text, whatever mix of valid and malformed
\* lines it holds, parse_commands terminates with current at end-of-input and
\* returns the commands built so far; every iteration of the driver loop
\* consumes at least one token.
C13_NoErrorIsFatal == <>(pc = "done") /\ []C13_AtEnd /\ [][C13_Progress]_vars

\* a finished parse of valid and malformed lines
C13_Witness ==
    /\ pc = "done"
    /\ is_at_end(parser)
    /\ Len(stdout) >= 2
    /\ Len(accepted) >= 1
    /\ ListOf(World) = accepted

----------------------------------------------------------------------------
(* The terminator of an instruction *)

\* the tokens of a text from tok to the end of tok's line
LineAt(text, tok) ==
    LET toks == TokenStream(text)
        i    == CHOOSE k \in 1..Len(toks) : toks[k] = tok
        j    == CHOOSE k \in i..Len(toks) :
                    /\ toks[k].type \in {"TOK_NL", "TOK_EOF"}
                    /\ \A m \in i..(k - 1) : toks[m].type \notin {"TOK_NL", "TOK_EOF"}
    IN  SubSeq(toks, i, j)

\* a keyword, every required operand well-formed, and then one more token
\* before the newline or end-of-input
HasTrailingToken(text, line) ==
    /\ line[1].type \in KeywordTypes
    /\ Len(line) > Len(Slots(line[1].type)) + 2
    /\ \A i \in 1..Len(Slots(line[1].type)) :
           SlotOk(text, Slots(line[1].type)[i], line[i + 1])

\* parse_cmd on such an instruction returns no command: the list is as it
\* was, and the command created for the instruction has been released
C14_Step ==
    (/\ pc = "loop"
     /\ ~is_at_end(parser)
     /\ BoundaryToken.type \in KeywordTypes
     /\ HasTrailingToken(Source, LineAt(Source, BoundaryToken))) =>
        /\ accepted' = accepted
        /\ head' = head
        /\ tail' = tail
        /\ Len(heap') = Len(heap) + 1
        /\ heap'[Len(heap')].obj.type = CommandTypeOf(BoundaryToken.type)
        /\ heap'[Len(heap')].freed = 1
        /\ \A i \in 1..Len(heap) : heap'[i] = heap[i]

C14_Single ==
    (/\ pc = "done"
     /\ Len(InstructionLines) = 1
     /\ HasTrailingToken(Source, InstructionLines[1])) =>
        (head = NULL /\ ListOf(World) = <<>>)

\* C14: an instruction must end at a newline or end-of-input: if any other
\* token follows the last required operand of an otherwise well-formed ADD,
\* SUB, MOV, CMP, CMP_U or PRINT, the whole instruction is rejected and no
\* command for it is in the returned list.
C14_TrailingToken == [][C14_Step]_vars /\ []C14_Single

\* a finished parse of one instruction with a trailing token
C14_Witness ==
    /\ pc = "done"
    /\ Len(InstructionLines) = 1
    /\ HasTrailingToken(Source, InstructionLines[1])
    /\ InstructionLines[1][1].type = "TOK_PRINT"
    /\ head = NULL
    /\ Len(heap) = 1
    /\ heap[1].freed = 1
    /\ Len(stdout) = 1

----------------------------------------------------------------------------
(* The error flag *)

\* parse_cmd is entered, and parse_commands returns, with the flag clear
C15_ClearAtEntry == pc \in {"loop", "done"} => ~parser.had_error

\* a step of parse_cmd sets the flag exactly when it emits a diagnostic, and
\* it emits at most one; the recovery clears the flag
C15_Step ==
    /\ (pc = "loop" /\ pc' = "recover") =>
           /\ Len(stdout') \in {Len(stdout), Len(stdout) + 1}
           /\ parser'.had_error <=> (Len(stdout') = Len(stdout) + 1)
    /\ (pc = "recover" /\ pc' = "loop") =>
           (~parser'.had_error /\ stdout' = stdout)

\* C15: the error flag is set exactly when a diagnostic is emitted and is
\* cleared by the recovery before the next instruction is attempted:
\* parse_cmd is never entered from parse_commands with had_error set, and
\* had_error is false when parse_commands returns.
C15_ErrorFlag == []C15_ClearAtEntry /\ [][C15_Step]_vars

\* a parse that failed on three instructions has returned with the flag clear
C15_Witness ==
    /\ pc = "done"
    /\ Len(stdout) = 3
    /\ ~parser.had_error

----------------------------------------------------------------------------
(* Memory discipline *)

\* C16: whenever parse_cmd has returned (so before the recovery skip begins),
\* every command created for an instruction that failed has been released
\* exactly once and is not linked into the list, and no command reachable
\* from head has been released.
C16_ReleasedOnce ==
    /\ \A i \in 1..Len(heap) :
           heap[i].freed = (IF i \in Range(ListOf(World)) THEN 0 ELSE 1)
    /\ \A i \in 1..Len(heap) : heap[i].obj.next # NULL => heap[heap[i].obj.next].freed = 0
    /\ Len(heap) - Len(accepted) <= Len(stdout)

\* parse_cmd has just failed at the operand of a print, after the base
\* signifier was stored: the command is released and the recovery not begun
C16_Witness ==
    /\ pc = "recover"
    /\ parser.had_error
    /\ Len(heap) = 1
    /\ heap[Len(heap)].obj.type = "CMD_PRINT"
    /\ heap[Len(heap)].obj.val_a.str_val # NullStr
    /\ heap[Len(heap)].freed = 1
    /\ Len(heap) \notin Range(ListOf(World))

----------------------------------------------------------------------------
(* The slots and flags of the commands of the list *)

\* the commands of the list
Listed == {heap[i].obj : i \in Range(ListOf(World))}

\* C17: in every command of the list the slots its kind does not use keep
\* their zero-initialized values: a MOV has operand_b zero and is_b_immediate
\* false; CMP, CMP_U and PRINT have destination zero; PRINT has
\* is_a_immediate false; every command has branch_condition none.
C17_UnusedSlots ==
    \A c \in Listed :
        /\ c.type = "CMD_MOV" => (c.val_b = ZeroOperand /\ ~c.is_b_immediate)
        /\ c.type \in {"CMD_CMP", "CMD_CMP_U", "CMD_PRINT"} => c.destination = ZeroOperand
        /\ c.type = "CMD_PRINT" => ~c.is_a_immediate
        /\ c.branch_condition = "BRANCH_NONE"

\* a returned list with a MOV of an immediate and a PRINT
C17_Witness ==
    /\ pc = "done"
    /\ \E c \in Listed : c.type = "CMD_PRINT" /\ c.is_b_immediate
    /\ \E c \in Listed : c.type = "CMD_MOV" /\ c.val_a # ZeroOperand

----------------------------------------------------------------------------
(* The lookahead buffer *)

\* C18: after parser_init and any sequence of advance, consume and
\* consume_newline calls, the tokens consumed are the first tokens of the
\* lexer's stream in order (none skipped, none delivered twice), current is
\* the token after them, next is the token after current while current is not
\* end-of-input, and the tokens pulled are the tokens consumed plus two.
C18_Lookahead ==
    pc = "buffer" =>
        \E toks \in {TokenStream(Source)} : \E n \in {Len(call.consumed)} :
            /\ n < Len(toks)
            /\ call.consumed = SubSeq(toks, 1, n)
            /\ parser.current = toks[n + 1]
            /\ ~is_at_end(parser) => (n + 2 <= Len(toks) /\ parser.next = toks[n + 2])
            /\ parser.lexer.pulled = n + 2
            /\ call.fn = "advance" /\ ~is_at_end(call.before) => call.ret = <<toks[n]>>

\* four tokens consumed, the last by a successful consume, and more to come
C18_Witness ==
    /\ pc = "buffer"
    /\ Len(call.consumed) = 4
    /\ call.fn = "consume"
    /\ call.ok
    /\ ~is_at_end(parser)
    /\ parser.next.type # "TOK_EOF"

\* C19: no command of the list has is_a_string or is_b_string set, a PRINT
\* whose operand_a holds the string base signifier included.
C19_NoStringFlags ==
    \A c \in Listed :
        /\ ~c.is_a_string
        /\ ~c.is_b_string
        /\ c.type = "CMD_PRINT" => c.val_a.str_val # NullStr
        /\ c.type # "CMD_PRINT" => (c.val_a.str_val = NullStr /\ c.val_b.str_val = NullStr)

\* a returned list that holds a PRINT with its base signifier string
C19_Witness ==
    /\ pc = "done"
    /\ \E c \in Listed :
           /\ c.type = "CMD_PRINT"
           /\ c.val_a.str_val # NullStr
           /\ c.val_a.str_val[1] = "x"
           /\ ~c.is_a_string

----------------------------------------------------------------------------
(* The magnitude of an immediate *)

\* a natural number of any size: its base-65536 digits, least significant
\* first, with no leading zero.  v * m + d:
RECURSIVE NatMulAdd(_, _, _)
NatMulAdd(v, m, d) ==
    IF v = <<>>
    THEN (IF d = 0 THEN <<>> ELSE <<d % LimbBase>> \o NatMulAdd(<<>>, m, d \div LimbBase))
    ELSE Bind(v[1] * m + d, LAMBDA t :
             <<t % LimbBase>> \o NatMulAdd(Tail(v), m, t \div LimbBase))

\* acc followed by the digits lo .. hi - 1 of ds, as a number of the base,
\* exactly (evaluated by halves)
RECURSIVE NatValue(_, _, _, _, _)
NatValue(ds, base, lo, hi, acc) ==
    IF lo >= hi THEN acc
    ELSE IF hi = lo + 1 THEN NatMulAdd(acc, base, DigitValue(ds[lo], base))
    ELSE Bind((lo + hi) \div 2, LAMBDA mid :
         Bind(NatValue(ds, base, lo, mid, acc), LAMBDA m :
             NatValue(ds, base, mid, hi, m)))

\* the number a literal denotes, exactly
ExactValue(w) ==
    Bind(LiteralDigits(w), LAMBDA ds :
    Bind(LiteralBase(w), LAMBDA base :
        NatValue(ds, base, 1, Len(ds) + 1, <<>>)))

\* n mod 2^64 as a uint64_t
Mod2to64(n) == [i \in 1..4 |-> IF i <= Len(n) THEN n[i] ELSE 0]

AtLeast2to64(n) == Len(n) > 4

\* C20: parse_imm never rejects a literal because of its magnitude: the value
\* is accumulated in an unsigned 64-bit integer, so a well-formed decimal, hex
\* or binary literal is accepted whatever its size and the immediate stored
\* is its mathematical value modulo 2^64.
C20_WrapsAt64Bits ==
    (/\ pc = "returned"
     /\ call.fn \in {"parse_imm", "parse_var_or_imm"}
     /\ CalledToken.type = "TOK_NUM"
     /\ HasValidDigits(CalledWord)) =>
        /\ call.ok
        /\ call.op.num_val = Mod2to64(ExactValue(CalledWord))
        /\ CalledWord = W_2pow64m1 =>
               call.op.num_val = <<LimbBase - 1, LimbBase - 1, LimbBase - 1, LimbBase - 1>>
        /\ CalledWord = W_2pow64 => call.op.num_val = U64Zero
        /\ CalledWord = W_hexMax =>
               call.op.num_val = <<LimbBase - 1, LimbBase - 1, LimbBase - 1, LimbBase - 1>>

\* the decimal literal 2^64 + 1 has been accepted with the value 1
C20_Witness ==
    /\ Returned("parse_imm")
    /\ CalledWord = W_2pow64p1
    /\ AtLeast2to64(ExactValue(CalledWord))
    /\ call.ok
    /\ call.op.num_val = U64(1)

=============================================================================
